---- MODULE Spec2Model ----
(***************************************************************************)
(* GateKeeper::Enroll / GateKeeper::Verify of gatekeeper.cpp as a state    *)
(* machine over the password store, the two signing keys, the monotonic    *)
(* clock and the random source.                                            *)
(*                                                                         *)
(* A buffer that may be absent (UniquePtr / SizedBuffer whose buffer.get() *)
(* is NULL) is a sequence of length 0 or 1: NULL is <<>>, a present value  *)
(* x is <<x>>.  A password is its byte sequence.  A password-handle buffer *)
(* is the record of the packed password_handle_t fields found in its first *)
(* sizeof(password_handle_t) bytes, together with the buffer's length.     *)
(***************************************************************************)
EXTENDS Integers, Sequences, FiniteSets, TLC

\* ---------------------------------------------------------------- bounds
\* Number of random values that go into handles in one behaviour: a first
\* enrollment takes three (secure id, salt, authenticator id), a
\* re-enrollment two.
MaxRandom == 6
\* Number of seconds the monotonic clock advances in one behaviour.
MaxTicks == 1

\* ------------------------------------------------------ program constants
HANDLE_VERSION == 0
\* sizeof(password_handle_t): packed u8 + u64 + u64 + u64 + 32 bytes.
HandleSize == 57
ERROR_NONE == "ERROR_NONE"
ERROR_INVALID == "ERROR_INVALID"
\* Seconds are kept in 16-bit limbs: a time_t value is
\* wraps * 2^32 + high * 2^16 + low, and its static_cast<uint32_t> is the
\* pair <<high, low>>.
Limb == 65536

\* ------------------------------------------------------------ input sets
Users == {1, 2}
Passwords == {<<1>>, <<2>>}
\* 0 stands for "the key service returned no key".
NoKey == 0
PasswordKeys == {1}
AuthTokenKeys == {1}
ClockStarts == {[wraps |-> 0, high |-> Limb - 1, low |-> Limb - 1]}

NULL == <<>>
Some(x) == <<x>>
Get(b) == b[1]

VARIABLES
    store,           \* password file per uid: NULL or Some(handle)
    password_key,    \* what GetPasswordKey yields now
    auth_token_key,  \* what GetAuthTokenKey yields now
    tv_sec,          \* CLOCK_MONOTONIC_RAW seconds
    ticks,           \* seconds elapsed since Init
    random_count,    \* number of random values that went into handles
    enrolled,        \* history: one entry per successful Enroll, in order
    request,         \* the request just served, Idle between calls
    response,        \* its response
    served,          \* history: the keys and the store that request met
    minted           \* history: the timestamps of the last two tokens

vars == <<store, password_key, auth_token_key, tv_sec, ticks, random_count,
          enrolled, request, response, served, minted>>

\* ------------------------------------------------------ external services
\* GetRandom: the n-th value handed out.  Values are pairwise distinct and
\* never 0 (a cryptographically secure source; collisions are excluded).
GetRandom(n) == n + 1

\* ComputePasswordSignature: a deterministic keyed signature of to_sign,
\* diversified by salt; distinct inputs give distinct signatures.
ComputePasswordSignature(key, to_sign, salt) == <<key, to_sign, salt>>

\* ComputeSignature over the token fields that precede hmac.
ComputeSignature(key, message) == <<key, message>>

\* A signature value no key produces (used for tampered handles).
BadSignature == <<NoKey, <<>>, 0>>

\* memcmp_s over the sizeof(password_handle_t) leading bytes of two buffers.
HandleBytesEqual(a, b) ==
    /\ a.version = b.version
    /\ a.user_id = b.user_id
    /\ a.authenticator_id = b.authenticator_id
    /\ a.salt = b.salt
    /\ a.signature = b.signature

\* ------------------------------------------------------------- gatekeeper
\* to_sign with a metadata_length that stops short of the identity fields.
ToSignVersionOnly(version, user_id, authenticator_id, password) ==
    <<version>> \o password

\* The bytes signed: version, user_id, authenticator_id, then the password.
ToSign(version, user_id, authenticator_id, password) ==
    <<version, user_id, authenticator_id>> \o password

\* CreatePasswordHandle: [ok, handle]; ok is FALSE when no password key.
CreatePasswordHandle(salt, user_id, authenticator_id, password, key) ==
    [ok |-> key # NoKey,
     handle |->
        [version |-> HANDLE_VERSION,
         user_id |-> user_id,
         authenticator_id |-> authenticator_id,
         salt |-> salt,
         signature |->
            IF key # NoKey
            THEN ComputePasswordSignature(key,
                    ToSign(HANDLE_VERSION, user_id, authenticator_id, password),
                    salt)
            ELSE BadSignature,
         length |-> HandleSize]]

\* DoVerify that compares the recomputed handle up to, but not including,
\* the signature.
DoVerifyShortCompare(expected_handle, password, key) ==
    IF password = NULL THEN FALSE
    ELSE LET provided == CreatePasswordHandle(expected_handle.salt,
                            expected_handle.user_id,
                            expected_handle.authenticator_id,
                            Get(password), key)
         IN  IF ~provided.ok THEN FALSE
             ELSE /\ provided.handle.version = expected_handle.version
                  /\ provided.handle.user_id = expected_handle.user_id
                  /\ provided.handle.authenticator_id =
                        expected_handle.authenticator_id
                  /\ provided.handle.salt = expected_handle.salt

\* DoVerify(expected_handle, password): password is NULL or Some(bytes).
DoVerify(expected_handle, password, key) ==
    IF password = NULL THEN FALSE
    ELSE LET provided == CreatePasswordHandle(expected_handle.salt,
                            expected_handle.user_id,
                            expected_handle.authenticator_id,
                            Get(password), key)
         IN  IF ~provided.ok THEN FALSE
             ELSE HandleBytesEqual(provided.handle, expected_handle)

\* ValidatePasswordFile that takes a missing record for a match and
\* compares only the lengths of a record it finds.
ValidatePasswordFileLax(st, uid, provided_handle) ==
    IF st[uid] = NULL \/ Get(st[uid]).length = 0 THEN TRUE
    ELSE Get(st[uid]).length = provided_handle.length

\* ValidatePasswordFile that looks for the handle in the file of any uid.
ValidatePasswordFileAnyUser(st, uid, provided_handle) ==
    \E v \in DOMAIN st :
        /\ st[v] # NULL
        /\ Get(st[v]).length = provided_handle.length
        /\ HandleBytesEqual(Get(st[v]), provided_handle)

\* ValidatePasswordFile(uid, provided_handle) against the store st.
ValidatePasswordFile(st, uid, provided_handle) ==
    IF st[uid] = NULL \/ Get(st[uid]).length = 0 THEN FALSE
    ELSE /\ Get(st[uid]).length = provided_handle.length
         /\ HandleBytesEqual(Get(st[uid]), provided_handle)

\* Enroll that does not check the old password.
EnrollBranchNoDoVerify(req, st, key) ==
    IF req.password_handle = NULL THEN "new"
    ELSE IF ~ValidatePasswordFile(st, req.user_id, Get(req.password_handle))
         THEN "reject"
    ELSE "carry"

\* Enroll that refuses to replace a stored record unless the prior handle
\* is presented.
EnrollBranchGuardsRecord(req, st, key) ==
    IF req.password_handle = NULL
    THEN IF st[req.user_id] = NULL THEN "new" ELSE "reject"
    ELSE IF ~ValidatePasswordFile(st, req.user_id, Get(req.password_handle))
         THEN "reject"
    ELSE IF ~DoVerify(Get(req.password_handle), req.enrolled_password, key)
         THEN "reject"
    ELSE "carry"

\* Enroll, lines 53-72: which branch the prior handle selects.
\*   "new"    no prior handle: a fresh secure id is drawn
\*   "carry"  prior handle matches the store and the old password
\*   "reject" store mismatch or wrong old password
EnrollBranch(req, st, key) ==
    IF req.password_handle = NULL THEN "new"
    ELSE IF ~ValidatePasswordFile(st, req.user_id, Get(req.password_handle))
         THEN "reject"
    ELSE IF ~DoVerify(Get(req.password_handle), req.enrolled_password, key)
         THEN "reject"
    ELSE "carry"

\* Enroll that draws a new secure id on every call.
EnrollUserIdAlwaysRandom(req, rc) == GetRandom(rc + 2)

\* Enroll, lines 49-72: the secure id of the new handle.
EnrollUserId(req, rc) ==
    IF req.password_handle = NULL THEN GetRandom(rc)
    ELSE Get(req.password_handle).user_id

\* Number of random values Enroll draws before salt and authenticator id.
EnrollUserIdDraws(req) == IF req.password_handle = NULL THEN 1 ELSE 0

\* Enroll, lines 74-75.
EnrollSalt(req, rc) == GetRandom(rc + EnrollUserIdDraws(req))

\* Enroll that keeps the authenticator id of the prior handle.
EnrollAuthenticatorIdKept(req, rc) ==
    IF req.password_handle = NULL
    THEN GetRandom(rc + EnrollUserIdDraws(req) + 1)
    ELSE Get(req.password_handle).authenticator_id

\* Enroll, lines 77-78.
EnrollAuthenticatorId(req, rc) == GetRandom(rc + EnrollUserIdDraws(req) + 1)

\* Enroll that signs the old password into the new handle when one is
\* given.
EnrollCreateOldPassword(req, key, rc) ==
    CreatePasswordHandle(EnrollSalt(req, rc), EnrollUserId(req, rc),
        EnrollAuthenticatorId(req, rc),
        IF req.enrolled_password # NULL THEN Get(req.enrolled_password)
        ELSE Get(req.provided_password), key)

\* Enroll, lines 81-87: the handle built for the new password.
EnrollCreate(req, key, rc) ==
    CreatePasswordHandle(EnrollSalt(req, rc), EnrollUserId(req, rc),
        EnrollAuthenticatorId(req, rc), Get(req.provided_password), key)

\* Enroll, lines 44-72: whether Enroll gets as far as drawing the salt.
EnrollReachesCreate(req, st, key) ==
    /\ req.provided_password # NULL
    /\ EnrollBranch(req, st, key) # "reject"

\* Enroll that writes the password file before it looks at what
\* CreatePasswordHandle returned.
EnrollWritesUnchecked(req, st, key, key_create, rc) ==
    EnrollReachesCreate(req, st, key)

\* Enroll, lines 88-90: whether WritePasswordFile is reached.
EnrollWrites(req, st, key, key_create, rc) ==
    /\ EnrollReachesCreate(req, st, key)
    /\ EnrollCreate(req, key_create, rc).ok

\* The whole of Enroll as a function of the request and the environment:
\* the response, the store afterwards, the random values consumed.  Values
\* drawn by a call that fails at line 82 are never seen by anyone: they are
\* not counted, so that the next call draws the same fresh values.
\* GetPasswordKey is called once under DoVerify (key) and once more under
\* CreatePasswordHandle at line 82 (key_create).
EnrollResult(req, st, key, key_create, rc) ==
    IF ~EnrollReachesCreate(req, st, key)
    THEN [error |-> ERROR_INVALID, handle |-> NULL, store |-> st, draws |-> 0]
    ELSE LET created == EnrollCreate(req, key_create, rc)
             draws == EnrollUserIdDraws(req) + 2
         IN  [error |-> IF created.ok THEN ERROR_NONE ELSE ERROR_INVALID,
              handle |-> IF created.ok THEN Some(created.handle) ELSE NULL,
              store |-> IF EnrollWrites(req, st, key, key_create, rc)
                        THEN [st EXCEPT ![req.user_id] = Some(created.handle)]
                        ELSE st,
              draws |-> IF created.ok THEN draws ELSE 0]

\* Verify that puts the handle's identity into the token whatever the
\* store says.
VerifyIdentityUnchecked(st, uid, handle) ==
    [user_id |-> handle.user_id,
     authenticator_id |-> handle.authenticator_id]

\* Verify that always puts the sentinel identity into the token.
VerifyIdentitySentinel(st, uid, handle) ==
    [user_id |-> 0, authenticator_id |-> 0]

\* Verify that takes the record for a match as soon as it carries the
\* secure id of the presented handle.
VerifyIdentitySecureIdOnly(st, uid, handle) ==
    IF st[uid] = NULL \/ Get(st[uid]).user_id # handle.user_id
    THEN [user_id |-> 0, authenticator_id |-> 0]
    ELSE [user_id |-> handle.user_id,
          authenticator_id |-> handle.authenticator_id]

\* Verify, lines 113-122: the identity pair that goes into the token.
VerifyIdentity(st, uid, handle) ==
    IF ~ValidatePasswordFile(st, uid, handle)
    THEN [user_id |-> 0, authenticator_id |-> 0]
    ELSE [user_id |-> handle.user_id,
          authenticator_id |-> handle.authenticator_id]

\* Verify, lines 124-127.
Timestamp(sec) == <<sec.high, sec.low>>

\* MintAuthToken: the tokens it can produce.  It never fails.  Without an
\* auth-token key ComputeSignature runs on a NULL key and a key_len that was
\* never assigned: the hmac is then whatever that call leaves behind.
MintAuthToken(timestamp, user_id, authenticator_id, key) ==
    LET message == <<user_id, authenticator_id, timestamp>>
        hmacs == IF key # NoKey THEN {ComputeSignature(key, message)}
                 ELSE {ComputeSignature(NoKey, message),
                       ComputeSignature(NoKey, <<>>)}
    IN  {[root_secure_user_id |-> user_id,
          auxiliary_secure_user_id |-> authenticator_id,
          timestamp |-> timestamp,
          hmac |-> h] : h \in hmacs}

\* Verify that copies the fields of the buffer into a password_handle_t of
\* its own, whose version is the default HANDLE_VERSION, and checks that.
VerifyAcceptsDefaultVersion(req, key) ==
    /\ req.provided_password # NULL
    /\ req.password_handle # NULL
    /\ DoVerify([Get(req.password_handle) EXCEPT !.version = HANDLE_VERSION],
                req.provided_password, key)

\* Verify, lines 98-111 and 129: whether a token is minted.
VerifyAccepts(req, key) ==
    /\ req.provided_password # NULL
    /\ req.password_handle # NULL
    /\ Get(req.password_handle).version = HANDLE_VERSION
    /\ DoVerify(Get(req.password_handle), req.provided_password, key)

\* Verify, lines 104-105: what the password_handle_t laid over the buffer
\* reads.  Verify never looks at the length of the buffer.  Bytes past the
\* record are ignored; a buffer that ends inside the signature is read past
\* its end, and the missing signature bytes are whatever lies there: they
\* complete the signature the buffer was cut from, or they do not.
PasswordHandleRead(buffer) ==
    IF buffer.length >= HandleSize THEN {buffer}
    ELSE {buffer, [buffer EXCEPT !.signature = BadSignature]}

\* Verify that rejects a handle the password file does not hold.
VerifyOutcomesStoreChecked(req, st, pkey, akey, sec) ==
    IF ~VerifyAccepts(req, pkey)
    THEN {[error |-> ERROR_INVALID, token |-> NULL]}
    ELSE IF ~ValidatePasswordFile(st, req.user_id, Get(req.password_handle))
    THEN {[error |-> ERROR_INVALID, token |-> NULL]}
    ELSE {[error |-> ERROR_NONE, token |-> Some(t)] :
            t \in MintAuthToken(Timestamp(sec),
                                Get(req.password_handle).user_id,
                                Get(req.password_handle).authenticator_id,
                                akey)}

\* Verify once the fields of the handle are read: the responses it can give.
VerifyOutcomes(req, st, pkey, akey, sec) ==
    IF ~VerifyAccepts(req, pkey)
    THEN {[error |-> ERROR_INVALID, token |-> NULL]}
    ELSE LET id == VerifyIdentity(st, req.user_id, Get(req.password_handle))
         IN  {[error |-> ERROR_NONE, token |-> Some(t)] :
                t \in MintAuthToken(Timestamp(sec), id.user_id,
                                    id.authenticator_id, akey)}

\* The whole of Verify: the set of responses it can give.
VerifyResults(req, st, pkey, akey, sec) ==
    IF req.password_handle = NULL
    THEN VerifyOutcomes(req, st, pkey, akey, sec)
    ELSE UNION {VerifyOutcomes([req EXCEPT !.password_handle = Some(h)],
                               st, pkey, akey, sec) :
                    h \in PasswordHandleRead(Get(req.password_handle))}

\* ------------------------------------------------------------ the callers
\* Handles a caller can present: every handle Enroll ever returned, the
\* same bytes in a buffer one byte longer, the same bytes less the last
\* one, and tampered copies.
IssuedHandles == {enrolled[i].handle : i \in DOMAIN enrolled}

Lengthened(h) == [h EXCEPT !.length = HandleSize + 1]

Shortened(h) == [h EXCEPT !.length = HandleSize - 1]

\* Copies of h with one of the four fields changed: the version, the
\* secure id, the authenticator id, the signature.
Tampered(h) ==
    {[h EXCEPT !.version = HANDLE_VERSION + 1],
     [h EXCEPT !.user_id = h.authenticator_id],
     [h EXCEPT !.authenticator_id = h.user_id],
     [h EXCEPT !.signature = BadSignature]}

\* Copies of h that carry the secure id and the signature of another
\* issued handle o.
Spliced(h) ==
    {[h EXCEPT !.user_id = o.user_id, !.signature = o.signature] :
        o \in IssuedHandles \ {h}}

CandidateHandles ==
    IssuedHandles
    \cup {Lengthened(h) : h \in IssuedHandles}
    \cup {Shortened(h) : h \in IssuedHandles}
    \cup UNION {Tampered(h) \cup Spliced(h) : h \in IssuedHandles}

OptionalPasswords == {NULL} \cup {Some(p) : p \in Passwords}
OptionalHandles == {NULL} \cup {Some(h) : h \in CandidateHandles}

Idle ==
    [op |-> "None", user_id |-> 0, password_handle |-> NULL,
     enrolled_password |-> NULL, provided_password |-> NULL]

NoResponse == [error |-> ERROR_NONE, handle |-> NULL, token |-> NULL]

Environment ==
    [password_key |-> password_key, auth_token_key |-> auth_token_key,
     store |-> store, random_count |-> random_count]

NoEnvironment ==
    [password_key |-> NoKey, auth_token_key |-> NoKey,
     store |-> [u \in Users |-> NULL], random_count |-> 0]

\* ----------------------------------------------------------------- actions
Init ==
    /\ store = [u \in Users |-> NULL]
    /\ password_key \in PasswordKeys
    /\ auth_token_key \in AuthTokenKeys
    /\ tv_sec \in ClockStarts
    /\ ticks = 0
    /\ random_count = 0
    /\ enrolled = <<>>
    /\ request = Idle
    /\ response = NoResponse
    /\ served = NoEnvironment
    /\ minted = <<>>

\* key_create is what GetPasswordKey yields at line 82, when Enroll gets
\* there: the key service may have gone away since DoVerify asked.
Enroll(uid, handle, old_password, new_password, key_create) ==
    LET req == [op |-> "Enroll", user_id |-> uid, password_handle |-> handle,
                enrolled_password |-> old_password,
                provided_password |-> new_password]
        res == EnrollResult(req, store, password_key, key_create,
                            random_count)
    IN  /\ request = Idle
        /\ key_create \in {password_key, NoKey}
        /\ EnrollReachesCreate(req, store, password_key)
                \/ key_create = password_key
        /\ random_count + res.draws <= MaxRandom
        /\ request' = req
        /\ response' = [error |-> res.error, handle |-> res.handle,
                        token |-> NULL]
        /\ store' = res.store
        /\ random_count' = random_count + res.draws
        /\ enrolled' = IF res.error = ERROR_NONE
                       THEN Append(enrolled,
                                [user_id |-> uid, handle |-> Get(res.handle),
                                 password |-> Get(new_password),
                                 key |-> key_create, prior |-> handle])
                       ELSE enrolled
        /\ served' = Environment
        /\ password_key' = key_create
        /\ UNCHANGED <<auth_token_key, tv_sec, ticks, minted>>

\* Verify that saves the handle it has just accepted as the record of
\* request.user_id.
VerifyCallPersists(uid, handle, password) ==
    LET req == [op |-> "Verify", user_id |-> uid, password_handle |-> handle,
                enrolled_password |-> NULL, provided_password |-> password]
    IN  /\ request = Idle
        /\ \E res \in VerifyResults(req, store, password_key, auth_token_key,
                                    tv_sec) :
            /\ response' = [error |-> res.error, handle |-> NULL,
                            token |-> res.token]
            /\ store' = IF res.error = ERROR_NONE
                        THEN [store EXCEPT ![uid] = handle]
                        ELSE store
        /\ request' = req
        /\ served' = Environment
        /\ UNCHANGED <<password_key, auth_token_key, tv_sec, ticks,
                       random_count, enrolled>>

\* Verify, lines 95-138: it reads the store through ValidatePasswordFile and
\* writes nothing.
VerifyCall(uid, handle, password) ==
    LET req == [op |-> "Verify", user_id |-> uid, password_handle |-> handle,
                enrolled_password |-> NULL, provided_password |-> password]
    IN  /\ request = Idle
        /\ \E res \in VerifyResults(req, store, password_key, auth_token_key,
                                    tv_sec) :
            response' = [error |-> res.error, handle |-> NULL,
                         token |-> res.token]
        /\ request' = req
        /\ served' = Environment
        /\ UNCHANGED <<store, password_key, auth_token_key, tv_sec, ticks,
                       random_count, enrolled>>

Verify(uid, handle, password) ==
    /\ VerifyCall(uid, handle, password)
    /\ UNCHANGED minted

\* Verify, with the timestamp of the token it returns written down next to
\* that of the token before.
VerifyTimed(uid, handle, password) ==
    /\ VerifyCall(uid, handle, password)
    /\ minted' =
        IF response'.token = NULL THEN minted
        ELSE IF Len(minted) < 2
             THEN Append(minted, Get(response'.token).timestamp)
        ELSE <<minted[2], Get(response'.token).timestamp>>

\* The key service starts or stops yielding the password key, or yields
\* another one.
SetPasswordKey(key) ==
    /\ request = Idle
    /\ key # password_key
    /\ password_key' = key
    /\ UNCHANGED <<store, auth_token_key, tv_sec, ticks, random_count,
                   enrolled, request, response, served, minted>>

SetAuthTokenKey(key) ==
    /\ request = Idle
    /\ key # auth_token_key
    /\ auth_token_key' = key
    /\ UNCHANGED <<store, password_key, tv_sec, ticks, random_count,
                   enrolled, request, response, served, minted>>

\* One second passes on the monotonic clock.
NextSecond(sec) ==
    IF sec.low + 1 < Limb THEN [sec EXCEPT !.low = sec.low + 1]
    ELSE IF sec.high + 1 < Limb
         THEN [sec EXCEPT !.high = sec.high + 1, !.low = 0]
    ELSE [wraps |-> sec.wraps + 1, high |-> 0, low |-> 0]

Tick ==
    /\ request = Idle
    /\ ticks < MaxTicks
    /\ tv_sec' = NextSecond(tv_sec)
    /\ ticks' = ticks + 1
    /\ UNCHANGED <<store, password_key, auth_token_key, random_count,
                   enrolled, request, response, served, minted>>

\* The caller takes the response; the gatekeeper is ready for the next call.
Return ==
    /\ request # Idle
    /\ request' = Idle
    /\ response' = NoResponse
    /\ served' = NoEnvironment
    /\ UNCHANGED <<store, password_key, auth_token_key, tv_sec, ticks,
                   random_count, enrolled, minted>>

Next ==
    \/ \E uid \in Users, handle \in OptionalHandles,
          old_password \in OptionalPasswords,
          new_password \in OptionalPasswords,
          key_create \in PasswordKeys \cup {NoKey} :
            Enroll(uid, handle, old_password, new_password, key_create)
    \/ \E uid \in Users, handle \in OptionalHandles,
          password \in OptionalPasswords :
            Verify(uid, handle, password)
    \/ \E key \in PasswordKeys \cup {NoKey} : SetPasswordKey(key)
    \/ \E key \in AuthTokenKeys \cup {NoKey} : SetAuthTokenKey(key)
    \/ Tick
    \/ Return

Spec == Init /\ [][Next]_vars

\* The same calls, with the timestamps of the tokens written down.
NextTimed ==
    \/ \E uid \in Users, handle \in OptionalHandles,
          old_password \in OptionalPasswords,
          new_password \in OptionalPasswords,
          key_create \in PasswordKeys \cup {NoKey} :
            Enroll(uid, handle, old_password, new_password, key_create)
    \/ \E uid \in Users, handle \in OptionalHandles,
          password \in OptionalPasswords :
            VerifyTimed(uid, handle, password)
    \/ \E key \in PasswordKeys \cup {NoKey} : SetPasswordKey(key)
    \/ \E key \in AuthTokenKeys \cup {NoKey} : SetAuthTokenKey(key)
    \/ Tick
    \/ Return

SpecTimed == Init /\ [][NextTimed]_vars

\* ------------------------------------------------------------ properties
\* What the properties read of the history.
Presented == Get(request.password_handle)
Token == Get(response.token)
StoredBefore == served.store[request.user_id]

\* Entry i is the last successful Enroll for its user id.
IsLatest(i) ==
    \A j \in DOMAIN enrolled :
        j > i => enrolled[j].user_id # enrolled[i].user_id

\* The presented buffer starts with the bytes of issued handle i, and the
\* password key is the one that signed it.
PresentsIssued(i) ==
    /\ request.password_handle # NULL
    /\ Presented.length >= HandleSize
    /\ HandleBytesEqual(Presented, enrolled[i].handle)
    /\ served.password_key = enrolled[i].key

\* C1: Verify of a handle returned by Enroll succeeds with the password it
\* was enrolled with while the signing key is the one that signed it, and
\* fails without a token with any other password.
VerificationSoundness ==
    \A i \in DOMAIN enrolled :
        (/\ request.op = "Verify"
         /\ request.password_handle = Some(enrolled[i].handle))
        =>
        /\ (/\ request.provided_password = Some(enrolled[i].password)
            /\ served.password_key = enrolled[i].key)
           => (response.error = ERROR_NONE /\ response.token # NULL)
        /\ request.provided_password # Some(enrolled[i].password)
           => (response.error = ERROR_INVALID /\ response.token = NULL)

\* A Verify of an issued handle with another password, under the key that
\* signed it, has failed.
VerificationSoundnessWitness ==
    \E i \in DOMAIN enrolled :
        /\ request.op = "Verify"
        /\ request.password_handle = Some(enrolled[i].handle)
        /\ request.provided_password # NULL
        /\ request.provided_password # Some(enrolled[i].password)
        /\ served.password_key = enrolled[i].key
        /\ response.error = ERROR_INVALID

\* C2: Enroll with the stored record as prior handle and an old password
\* that is absent or not the one the record was enrolled with fails, returns
\* no handle and leaves the store as it was.
EnrollmentRejection ==
    \A i \in DOMAIN enrolled :
        (/\ request.op = "Enroll"
         /\ request.password_handle = Some(enrolled[i].handle)
         /\ StoredBefore = request.password_handle
         /\ request.enrolled_password # Some(enrolled[i].password))
        =>
        /\ response.error = ERROR_INVALID
        /\ response.handle = NULL
        /\ store = served.store

\* Such an Enroll, with a new password and the signing key at hand, so that
\* only the old password stands in its way.
EnrollmentRejectionWitness ==
    \E i \in DOMAIN enrolled :
        /\ request.op = "Enroll"
        /\ request.password_handle = Some(enrolled[i].handle)
        /\ StoredBefore = request.password_handle
        /\ request.enrolled_password # NULL
        /\ request.enrolled_password # Some(enrolled[i].password)
        /\ request.provided_password # NULL
        /\ served.password_key = enrolled[i].key
        /\ response.error = ERROR_INVALID
        /\ store = served.store

\* The entry whose handle entry i presented as prior handle.
PriorIndex(i) ==
    CHOOSE j \in 1..(i - 1) : Some(enrolled[j].handle) = enrolled[i].prior

\* The handle-less enrollment that entry i descends from.
RECURSIVE ChainRoot(_)
ChainRoot(i) ==
    IF enrolled[i].prior = NULL THEN i ELSE ChainRoot(PriorIndex(i))

\* C3: every handle of a chain of re-enrollments carries the secure id of
\* the handle-less enrollment the chain started with, and a secure id no
\* earlier handle carries comes only from a handle-less Enroll.
IdentityContinuity ==
    \A i \in DOMAIN enrolled :
        /\ enrolled[i].prior # NULL =>
            \E j \in 1..(i - 1) :
                /\ Some(enrolled[j].handle) = enrolled[i].prior
                /\ enrolled[j].user_id = enrolled[i].user_id
        /\ enrolled[ChainRoot(i)].prior = NULL
        /\ enrolled[i].handle.user_id = enrolled[ChainRoot(i)].handle.user_id
        /\ (\A j \in 1..(i - 1) :
                enrolled[j].handle.user_id # enrolled[i].handle.user_id)
           => enrolled[i].prior = NULL

\* A re-enrollment has succeeded.
IdentityContinuityWitness ==
    \E i \in DOMAIN enrolled :
        /\ enrolled[i].prior # NULL
        /\ ChainRoot(i) # i
        /\ request.op = "Enroll"
        /\ response.handle = Some(enrolled[i].handle)

\* C4: Verify of a buffer that holds an issued handle, with its password,
\* succeeds when the store holds no byte-identical record for the user id,
\* and the token then carries 0 and 0, not the identity of the handle.
FallbackScoping ==
    \A i \in DOMAIN enrolled :
        (/\ request.op = "Verify"
         /\ PresentsIssued(i)
         /\ request.provided_password = Some(enrolled[i].password)
         /\ StoredBefore # request.password_handle)
        =>
        /\ response.error = ERROR_NONE
        /\ response.token # NULL
        /\ Token.root_secure_user_id = 0
        /\ Token.auxiliary_secure_user_id = 0
        /\ Token.root_secure_user_id # Presented.user_id
        /\ Token.auxiliary_secure_user_id # Presented.authenticator_id

\* Such a Verify where the store holds another record for the user id.
FallbackScopingWitness ==
    \E i \in DOMAIN enrolled :
        /\ request.op = "Verify"
        /\ request.password_handle = Some(enrolled[i].handle)
        /\ request.provided_password = Some(enrolled[i].password)
        /\ served.password_key = enrolled[i].key
        /\ StoredBefore # NULL
        /\ StoredBefore # request.password_handle
        /\ response.error = ERROR_NONE
        /\ Token.root_secure_user_id = 0

\* C5 as stated: Verify of the handle of the last successful Enroll for the
\* user id, with its password, succeeds with the identity of the handle.
VerifyAfterEnroll ==
    \A i \in DOMAIN enrolled :
        (/\ request.op = "Verify"
         /\ IsLatest(i)
         /\ request.user_id = enrolled[i].user_id
         /\ request.password_handle = Some(enrolled[i].handle)
         /\ request.provided_password = Some(enrolled[i].password))
        =>
        /\ response.error = ERROR_NONE
        /\ response.token # NULL
        /\ Token.root_secure_user_id = enrolled[i].handle.user_id
        /\ Token.auxiliary_secure_user_id =
                enrolled[i].handle.authenticator_id

\* C5 amended: the same, while GetPasswordKey yields the key that signed
\* the handle.
VerifyAfterEnrollSameKey ==
    \A i \in DOMAIN enrolled :
        (/\ request.op = "Verify"
         /\ IsLatest(i)
         /\ request.user_id = enrolled[i].user_id
         /\ request.password_handle = Some(enrolled[i].handle)
         /\ request.provided_password = Some(enrolled[i].password)
         /\ served.password_key = enrolled[i].key)
        =>
        /\ response.error = ERROR_NONE
        /\ response.token # NULL
        /\ Token.root_secure_user_id = enrolled[i].handle.user_id
        /\ Token.auxiliary_secure_user_id =
                enrolled[i].handle.authenticator_id

\* A Verify of the stored handle has returned a token with its identity.
VerifyAfterEnrollWitness ==
    \E i \in DOMAIN enrolled :
        /\ request.op = "Verify"
        /\ IsLatest(i)
        /\ request.user_id = enrolled[i].user_id
        /\ request.password_handle = Some(enrolled[i].handle)
        /\ request.provided_password = Some(enrolled[i].password)
        /\ response.error = ERROR_NONE
        /\ Token.root_secure_user_id = enrolled[i].handle.user_id
        /\ Token.root_secure_user_id # 0

\* C6: Enroll with a prior handle that is not byte for byte the record
\* stored for the user id (or with no record stored) fails, returns no
\* handle and leaves the store as it was, whatever the old password.
StoreMismatchRejected ==
    (/\ request.op = "Enroll"
     /\ request.password_handle # NULL
     /\ StoredBefore # request.password_handle)
    =>
    /\ response.error = ERROR_INVALID
    /\ response.handle = NULL
    /\ store = served.store

\* Such an Enroll that presents an issued handle with the password it was
\* enrolled with, a new password and the signing key at hand.
StoreMismatchRejectedWitness ==
    \E i \in DOMAIN enrolled :
        /\ request.op = "Enroll"
        /\ request.password_handle = Some(enrolled[i].handle)
        /\ StoredBefore # request.password_handle
        /\ StoredBefore # NULL
        /\ request.enrolled_password = Some(enrolled[i].password)
        /\ request.provided_password # NULL
        /\ served.password_key = enrolled[i].key
        /\ response.error = ERROR_INVALID
        /\ store = served.store

\* C7: an Enroll that returns an error has changed the record of no user
\* id and returns no handle; the store changes only in an Enroll that
\* succeeds, and then to the handle it returns.
NoPartialPersistence ==
    request.op = "Enroll" =>
        /\ response.error # ERROR_NONE =>
            (store = served.store /\ response.handle = NULL)
        /\ store # served.store =>
            /\ response.error = ERROR_NONE
            /\ response.handle # NULL
            /\ store = [served.store EXCEPT
                            ![request.user_id] = response.handle]

\* A re-enrollment that passed both checks and then found no signing key
\* at line 82.
NoPartialPersistenceWitness ==
    /\ request.op = "Enroll"
    /\ request.password_handle # NULL
    /\ StoredBefore = request.password_handle
    /\ served.password_key # NoKey
    /\ password_key = NoKey
    /\ response.error = ERROR_INVALID
    /\ store = served.store

\* C8 as stated: a Verify whose handle matches the password, served while
\* GetAuthTokenKey yields no key, returns an error and no token.
MintFailurePropagated ==
    \A i \in DOMAIN enrolled :
        (/\ request.op = "Verify"
         /\ PresentsIssued(i)
         /\ request.provided_password = Some(enrolled[i].password)
         /\ served.auth_token_key = NoKey)
        =>
        /\ response.error # ERROR_NONE
        /\ response.token = NULL

\* t holds the salt of h and differs from h in the version, the secure id,
\* the authenticator id or the signature.
IsTamperedCopy(t, h) ==
    /\ t.salt = h.salt
    /\ t.length = h.length
    /\ \/ t.version # h.version
       \/ t.user_id # h.user_id
       \/ t.authenticator_id # h.authenticator_id
       \/ t.signature # h.signature

\* C9: a tampered copy of an issued handle, presented with the password of
\* that handle, makes Verify fail without a token and Enroll fail without
\* a handle.
TamperSensitivity ==
    \A i \in DOMAIN enrolled :
        (/\ request.password_handle # NULL
         /\ IsTamperedCopy(Presented, enrolled[i].handle))
        =>
        /\ (/\ request.op = "Verify"
            /\ request.provided_password = Some(enrolled[i].password))
           => (response.error = ERROR_INVALID /\ response.token = NULL)
        /\ (/\ request.op = "Enroll"
            /\ request.enrolled_password = Some(enrolled[i].password))
           => /\ response.error = ERROR_INVALID
              /\ response.handle = NULL
              /\ store = served.store

\* A Verify of a copy whose secure id alone was changed, with the right
\* password and the key that signed the handle, has failed.
TamperSensitivityWitness ==
    \E i \in DOMAIN enrolled :
        /\ request.op = "Verify"
        /\ request.password_handle # NULL
        /\ Presented.user_id # enrolled[i].handle.user_id
        /\ Presented = [enrolled[i].handle EXCEPT
                            !.user_id = Presented.user_id]
        /\ request.provided_password = Some(enrolled[i].password)
        /\ served.password_key = enrolled[i].key
        /\ response.error = ERROR_INVALID

\* C10: the handle a successful Enroll returns differs in authenticator id
\* and in salt from the handle presented and from the record it replaces.
Rotation ==
    (request.op = "Enroll" /\ response.error = ERROR_NONE)
    =>
    LET new == Get(response.handle)
    IN  /\ store[request.user_id] = response.handle
        /\ request.password_handle # NULL =>
            /\ new.authenticator_id # Presented.authenticator_id
            /\ new.salt # Presented.salt
        /\ StoredBefore # NULL =>
            /\ new.authenticator_id # Get(StoredBefore).authenticator_id
            /\ new.salt # Get(StoredBefore).salt

\* A re-enrollment has succeeded.
RotationWitness ==
    /\ request.op = "Enroll"
    /\ response.error = ERROR_NONE
    /\ request.password_handle # NULL
    /\ StoredBefore = request.password_handle
    /\ store[request.user_id] # StoredBefore

\* C11: Verify of a handle whose version is not HANDLE_VERSION returns an
\* error and no token, whatever the password and the store.
VersionMismatchRejected ==
    (/\ request.op = "Verify"
     /\ request.password_handle # NULL
     /\ Presented.version # HANDLE_VERSION)
    =>
    /\ response.error = ERROR_INVALID
    /\ response.token = NULL

\* A Verify of an issued handle whose version byte alone was changed, with
\* the password of the handle and the key that signed it, has failed.
VersionMismatchRejectedWitness ==
    \E i \in DOMAIN enrolled :
        /\ request.op = "Verify"
        /\ request.password_handle =
                Some([enrolled[i].handle EXCEPT !.version = HANDLE_VERSION + 1])
        /\ request.provided_password = Some(enrolled[i].password)
        /\ served.password_key = enrolled[i].key
        /\ response.error = ERROR_INVALID
        /\ response.token = NULL

\* C12 as stated: Verify of a buffer whose length is not
\* sizeof(password_handle_t) returns an error and no token.
WrongLengthRejected ==
    (/\ request.op = "Verify"
     /\ request.password_handle # NULL
     /\ Presented.length # HandleSize)
    =>
    /\ response.error = ERROR_INVALID
    /\ response.token = NULL

\* The stores the password files could hold instead: for each user id no
\* record or any issued handle.
AlternativeStores ==
    [Users -> {NULL} \cup {Some(h) : h \in IssuedHandles}]

TimestampLeq(a, b) == a[1] < b[1] \/ (a[1] = b[1] /\ a[2] <= b[2])

\* C14 as stated: of two tokens returned one after the other, the second
\* carries a timestamp greater than or equal to that of the first.
TokenFreshness ==
    Len(minted) = 2 => TimestampLeq(minted[1], minted[2])

\* A step that is a call of Verify, and one that is a call of Enroll.
IsVerifyStep == request = Idle /\ request'.op = "Verify"
IsEnrollStep == request = Idle /\ request'.op = "Enroll"

\* C15: no call of Verify, accepted or rejected, changes the record stored
\* for any user id; a step that changes the store is an Enroll that
\* succeeds, and it replaces the record of request.user_id, and no other,
\* by the handle it returns.
VerifyReadOnly ==
    [][/\ IsVerifyStep => store' = store
       /\ store' # store =>
            /\ IsEnrollStep
            /\ response'.error = ERROR_NONE
            /\ store' = [store EXCEPT ![request'.user_id] = response'.handle]
       /\ IsEnrollStep /\ response'.error = ERROR_NONE =>
            store' = [store EXCEPT ![request'.user_id] = response'.handle]]_vars

\* A Verify has returned a token for a handle other than the record stored
\* for request.user_id: the store is as the call met it.
VerifyReadOnlyWitness ==
    /\ request.op = "Verify"
    /\ response.error = ERROR_NONE
    /\ store[request.user_id] # NULL
    /\ Presented # Get(store[request.user_id])
    /\ store = served.store

\* What a response of Verify shows apart from the identity in its token and
\* the hmac over it: the error, and the timestamp of the token if any.
VerifyVerdict(res) ==
    [error |-> res.error,
     timestamp |-> IF res.token = NULL THEN NULL
                   ELSE Some(Get(res.token).timestamp)]

\* The verdicts Verify can reach on the request served, were the store st.
VerifyVerdicts(st) ==
    {VerifyVerdict(res) :
        res \in VerifyResults(request, st, served.password_key,
                              served.auth_token_key, tv_sec)}

\* C16: with the same request and the same keys Verify accepts under every
\* store or rejects under every store; the store decides only the identity
\* pair of the token, over which the token is minted as usual.
VerifyStoreIndependence ==
    request.op = "Verify" =>
        \A st \in AlternativeStores :
            /\ VerifyVerdicts(st) = VerifyVerdicts(served.store)
            /\ VerifyVerdict(response) \in VerifyVerdicts(st)
            /\ \A res \in VerifyResults(request, st, served.password_key,
                                        served.auth_token_key, tv_sec) :
                res.token # NULL =>
                    /\ \E h \in PasswordHandleRead(Presented) :
                        LET id == VerifyIdentity(st, request.user_id, h)
                        IN  /\ Get(res.token).root_secure_user_id
                                = id.user_id
                            /\ Get(res.token).auxiliary_secure_user_id
                                = id.authenticator_id
                    /\ Get(res.token) \in
                        MintAuthToken(Get(res.token).timestamp,
                            Get(res.token).root_secure_user_id,
                            Get(res.token).auxiliary_secure_user_id,
                            served.auth_token_key)

\* Verify has returned a token, and under another store the token would
\* carry another identity.
VerifyStoreIndependenceWitness ==
    /\ request.op = "Verify"
    /\ response.error = ERROR_NONE
    /\ \E st \in AlternativeStores :
        VerifyIdentity(st, request.user_id, Presented)
            # VerifyIdentity(served.store, request.user_id, Presented)

\* C17: an Enroll without a prior handle, with a new password and a password
\* key at hand, succeeds whatever the store holds and whatever is given as
\* old password: the record of request.user_id becomes the returned handle,
\* whose secure id is the value just drawn, the secure id of no handle
\* issued before.
UntrustedEnroll ==
    /\ request.op = "Enroll"
    /\ request.password_handle = NULL
    /\ request.provided_password # NULL
    /\ password_key # NoKey
    =>
    /\ response.error = ERROR_NONE
    /\ response.handle # NULL
    /\ store = [served.store EXCEPT ![request.user_id] = response.handle]
    /\ Get(response.handle).user_id = GetRandom(served.random_count)
    /\ \A i \in DOMAIN enrolled :
        i < Len(enrolled) =>
            enrolled[i].handle.user_id # Get(response.handle).user_id
    /\ \A st \in AlternativeStores, old \in OptionalPasswords :
        LET res == EnrollResult([request EXCEPT !.enrolled_password = old],
                                st, served.password_key, password_key,
                                served.random_count)
        IN  /\ res.error = ERROR_NONE
            /\ res.handle = response.handle
            /\ res.store = [st EXCEPT ![request.user_id] = response.handle]

\* An Enroll without a prior handle and without the old password has
\* replaced the record of a user id that was enrolled before.
UntrustedEnrollWitness ==
    /\ request.op = "Enroll"
    /\ request.password_handle = NULL
    /\ request.enrolled_password = NULL
    /\ response.error = ERROR_NONE
    /\ StoredBefore # NULL
    /\ store[request.user_id] = response.handle
    /\ Get(response.handle).user_id # Get(StoredBefore).user_id

\* Verify is served for the handle of Enroll i, with the password of that
\* Enroll, after a later Enroll has replaced the record of the user id.
VerifiesSuperseded(i) ==
    /\ request.op = "Verify"
    /\ ~IsLatest(i)
    /\ request.user_id = enrolled[i].user_id
    /\ request.password_handle = Some(enrolled[i].handle)
    /\ request.provided_password = Some(enrolled[i].password)

\* A token carries the identity of the presented handle only if that handle
\* is byte for byte the record stored for request.user_id.
OwnIdentityOnlyIfStored ==
    (/\ request.op = "Verify"
     /\ response.token # NULL
     /\ Token.root_secure_user_id = Presented.user_id
     /\ Token.auxiliary_secure_user_id = Presented.authenticator_id)
    => StoredBefore = request.password_handle

\* C18 as stated: Verify of a superseded handle with its password succeeds
\* with a token whose identity fields are both 0; and a token carries the
\* identity of the presented handle only if the handle is the stored record.
Supersession ==
    /\ \A i \in DOMAIN enrolled :
        VerifiesSuperseded(i) =>
            /\ response.error = ERROR_NONE
            /\ response.token # NULL
            /\ Token.root_secure_user_id = 0
            /\ Token.auxiliary_secure_user_id = 0
    /\ OwnIdentityOnlyIfStored

\* C18 amended: the same, while GetPasswordKey yields the key that signed
\* the superseded handle.
SupersessionSameKey ==
    /\ \A i \in DOMAIN enrolled :
        VerifiesSuperseded(i) /\ served.password_key = enrolled[i].key =>
            /\ response.error = ERROR_NONE
            /\ response.token # NULL
            /\ Token.root_secure_user_id = 0
            /\ Token.auxiliary_secure_user_id = 0
    /\ OwnIdentityOnlyIfStored

\* A Verify of a superseded handle, which carries the secure id of the
\* record that replaced it, has returned a token with the identity 0, 0.
SupersessionWitness ==
    \E i \in DOMAIN enrolled :
        /\ VerifiesSuperseded(i)
        /\ StoredBefore # NULL
        /\ Get(StoredBefore).user_id = enrolled[i].handle.user_id
        /\ response.error = ERROR_NONE
        /\ Token.root_secure_user_id = 0
        /\ Token.auxiliary_secure_user_id = 0

\* The successful Enrolls for user id u, oldest first.
EnrollsFor(u) == {i \in DOMAIN enrolled : enrolled[i].user_id = u}

\* C19: in every state the record of a user id is absent, and then no
\* Enroll for it has succeeded, or it is byte for byte the handle returned
\* by the last successful Enroll for it; the record has the current
\* version, and its signature verifies against the new password of that
\* Enroll under the key that signed it.
StoreInvariant ==
    \A u \in Users :
        IF store[u] = NULL THEN EnrollsFor(u) = {}
        ELSE \E i \in EnrollsFor(u) :
                /\ IsLatest(i)
                /\ store[u] = Some(enrolled[i].handle)
                /\ Get(store[u]).version = HANDLE_VERSION
                /\ Get(store[u]).length = HandleSize
                /\ DoVerify(Get(store[u]), Some(enrolled[i].password),
                            enrolled[i].key)
                /\ \A p \in Passwords \ {enrolled[i].password} :
                    ~DoVerify(Get(store[u]), Some(p), enrolled[i].key)

\* A record has been replaced by a re-enrollment to another password, and
\* calls have been served since.
StoreInvariantWitness ==
    \E i \in DOMAIN enrolled :
        /\ IsLatest(i)
        /\ enrolled[i].prior # NULL
        /\ \E j \in EnrollsFor(enrolled[i].user_id) :
            j < i /\ enrolled[j].password # enrolled[i].password
        /\ store[enrolled[i].user_id] = Some(enrolled[i].handle)
        /\ request.op = "Verify"

====
